---- MODULE Spec2Model ----
(***************************************************************************)
(* DocChat (docai/docchat): the request handler `home` of views.py, the    *)
(* index builder `get_vectorstore`, the two forms of forms.py, and the     *)
(* stores they act on: the session store, the Document table and the       *)
(* per-document vectorstore directories.                                   *)
(*                                                                         *)
(* A request reads the session of its browser session into                *)
(* request.session, the view mutates that working copy, and the working    *)
(* copy is written back when the view returns a response with              *)
(* request.session.modified set; a view that raises writes nothing back    *)
(* (the request ends as a server error).  Writes to the Document table and *)
(* to the vectorstore directories take effect when the view makes them.    *)
(*                                                                         *)
(* Spec, OneSession and Dispatch take requests one at a time: one request  *)
(* is one step.  Concurrent lets two asks overlap: an ask is three steps,  *)
(* cut where it reads or writes what it shares with the other.             *)
(***************************************************************************)
EXTENDS Integers, Sequences, FiniteSets, TLC

\* ------------------------------------------------------------------ bounds
MaxDocs == 2        \* Documents ever persisted
MaxConv == 2        \* entries of one conversation
MaxBuilds == 3      \* index builds of one document that reach the embedding service

\* --------------------------------------------------------------- constants
QuestionMaxLength == 500    \* forms.py: max_length=500
NoId == 0                   \* session.get("document_id") of a session without the key
ChunksPerDoc == 2           \* chunks the splitter yields for a document

Sessions == {"s1", "s2"}
Threads == {"t1", "t2"}     \* requests the server handles at the same time
DocIds == 1 .. MaxDocs
NoName == ""                \* None: session.get("uploaded_filename") without the key
Markers == {"upload_file", "ask_question", "reset", "clear_chat"}
SessionKeys == {"conversation", "uploaded_filename", "document_id"}
Answers == {"ans1", "ans2"}

\* A submitted question: its text, the stripped length of the text and the
\* count of surrounding whitespace characters.  "" with len 0 is a missing field.
Questions ==
    { [text |-> "",   len |-> 0,                     pad |-> 0],
      [text |-> "q1", len |-> QuestionMaxLength,     pad |-> 2],
      [text |-> "q2", len |-> QuestionMaxLength + 1, pad |-> 0] }

\* Where the storage backend keeps a Document's file: doc.file.url
HttpUrls == {"http://res.cloudinary.com/doc.pdf"}

\* An uploaded file of request.FILES, with the url the storage backend gives
\* it once saved; NoFile is a submission without the field.
NoFile == [name |-> NoName, url |-> ""]
Files == { [name |-> "a.pdf", url |-> "http://res.cloudinary.com/doc.pdf"],
           [name |-> "b.pdf", url |-> "/media/doc.pdf"] }

\* What the outside world does to one request: nothing, or one failure.
Faults == {"none", "fetch", "parse", "embed", "embed_after_mkdir", "completion"}

NoExc == "none"

\* ------------------------------------------------------------------- state
VARIABLES
    session,        \* session store: browser session -> session data
    documents,      \* Document table: set of rows [id, name, url]
    nextId,         \* last id the Document table handed out
    vectorstores,   \* VECTORSTORE_DIR/<key>: [exists, index]
    embedCalls,     \* document id -> builds that invoked the embedding service
    lastUpload,     \* browser session -> id of its most recent successful upload
    response,       \* what the last request did and rendered
    markers,        \* the action markers the last request carried
    inflight        \* thread -> the ask it is handling and how far it has got

vars == <<session, documents, nextId, vectorstores, embedCalls, lastUpload,
          response, markers, inflight>>

\* --------------------------------------------------------------- forms.py
NoForm == [kind |-> "none", bound |-> FALSE, errors |-> {}]

\* DocumentUploadForm() / DocumentUploadForm(request.POST, request.FILES)
DocumentUploadForm_unbound == [kind |-> "DocumentUploadForm", bound |-> FALSE, errors |-> {}]

DocumentUploadForm(file) ==
    [kind |-> "DocumentUploadForm", bound |-> TRUE,
     errors |-> IF file.name = NoName THEN {"required"} ELSE {}]

\* QuestionForm() / QuestionForm(request.POST): CharField strips the value,
\* then requires it and validates max_length on the stripped value.
QuestionForm_unbound == [kind |-> "QuestionForm", bound |-> FALSE, errors |-> {}]

QuestionForm(q) ==
    [kind |-> "QuestionForm", bound |-> TRUE,
     errors |-> IF q.len = 0 THEN {"required"}
                ELSE IF q.len > QuestionMaxLength THEN {"max_length"}
                ELSE {}]

is_valid_unchecked(form) == form.bound     \* variant: the errors are not looked at
is_valid(form) == form.bound /\ form.errors = {}

\* cleaned_data["question"]: the stripped text
cleaned_question(q) == [text |-> q.text, len |-> q.len]

\* ------------------------------------------------------------ session data
EmptySession ==
    [keys |-> {}, uploaded_filename |-> NoName, document_id |-> NoId,
     conversation |-> << >>]

\* request.session.get("uploaded_filename"), .get("document_id"),
\* .get("conversation", [])
session_get_filename(s) ==
    IF "uploaded_filename" \in s.keys THEN s.uploaded_filename ELSE NoName
session_get_document_id(s) ==
    IF "document_id" \in s.keys THEN s.document_id ELSE NoId
session_get_conversation(s) ==
    IF "conversation" \in s.keys THEN s.conversation ELSE << >>

\* request.session.pop(key, None)
session_pop(s, key) ==
    [keys |-> s.keys \ {key},
     uploaded_filename |-> IF key = "uploaded_filename" THEN NoName ELSE s.uploaded_filename,
     document_id |-> IF key = "document_id" THEN NoId ELSE s.document_id,
     conversation |-> IF key = "conversation" THEN << >> ELSE s.conversation]

\* ------------------------------------------------------- the index builder
NoDir == [exists |-> FALSE, index |-> << >>]

\* The chunks of a document, embedded: what Chroma.from_documents stores.
BuiltIndex(doc) == [k \in 1 .. ChunksPerDoc |-> [doc |-> doc.id, chunk |-> k]]

\* store_path = os.path.join(VECTORSTORE_DIR, str(doc.id))
store_path_shared(doc) == 1      \* variant: one directory for every document
store_path(doc) == doc.id

\* os.path.exists(store_path)
path_exists_never(stores, path) == FALSE     \* variant: the cache is never found
path_exists(stores, path) == stores[path].exists

\* doc.file.url.startswith("http")
startswith_http(url) == url \in HttpUrls

\* get_loader / load_pdf_from_cloudinary: a remote file is fetched first, and
\* raise_for_status raises when the fetch fails.
get_loader(doc, fault) ==
    IF startswith_http(doc.url) /\ fault = "fetch" THEN "HTTPError" ELSE NoExc

\* Chroma.from_documents(texts, embeddings, persist_directory=store_path) and
\* vectorstore.persist(): what the directory holds afterwards.  Into a
\* directory that is absent the build writes its texts.  Into a directory
\* another build has written meanwhile, the Chroma storage decides: each
\* build persists its own database over the directory ("replace"), or both
\* builds add their texts to the one collection of the directory ("add").
PersistModes == {"replace", "add"}

from_documents(dir, texts, mode) ==
    IF dir.exists /\ mode = "add"
    THEN [exists |-> TRUE, index |-> dir.index \o texts]
    ELSE [exists |-> TRUE, index |-> texts]

\* The else branch of get_vectorstore (lines 50-56): load, split, embed,
\* persist.
create_vectorstore(doc, stores, calls, fault, mode) ==
    LET path == store_path(doc) IN
    IF get_loader(doc, fault) # NoExc
    THEN [exc |-> get_loader(doc, fault), index |-> << >>, built |-> FALSE,
          vectorstores |-> stores, embedCalls |-> calls]
    ELSE IF fault = "parse"
    THEN [exc |-> "PdfReadError", index |-> << >>, built |-> FALSE,
          vectorstores |-> stores, embedCalls |-> calls]
    ELSE LET called == [calls EXCEPT ![doc.id] = @ + 1] IN
         IF fault = "embed"
         THEN [exc |-> "EmbeddingError", index |-> << >>, built |-> FALSE,
               vectorstores |-> stores, embedCalls |-> called]
         ELSE IF fault = "embed_after_mkdir"
         THEN [exc |-> "EmbeddingError", index |-> << >>, built |-> FALSE,
               vectorstores |-> [stores EXCEPT ![path] =
                                    IF @.exists THEN @
                                    ELSE [exists |-> TRUE, index |-> << >>]],
               embedCalls |-> called]
         ELSE LET dir == from_documents(stores[path], BuiltIndex(doc), mode) IN
              [exc |-> NoExc, index |-> dir.index, built |-> TRUE,
               vectorstores |-> [stores EXCEPT ![path] = dir],
               embedCalls |-> called]

\* The load branch of get_vectorstore (line 47): the index the directory holds.
load_vectorstore(doc, stores, calls) ==
    [exc |-> NoExc, index |-> stores[store_path(doc)].index, built |-> FALSE,
     vectorstores |-> stores, embedCalls |-> calls]

\* get_vectorstore(doc): the index, the exception it raised, and what it
\* left on disk and asked of the embedding service.  Run without another
\* request in between, the build finds its directory absent.
get_vectorstore(doc, stores, calls, fault) ==
    IF path_exists(stores, store_path(doc))
    THEN load_vectorstore(doc, stores, calls)
    ELSE create_vectorstore(doc, stores, calls, fault, "replace")

\* ------------------------------------------------------ the Document table
\* Document.objects.get(id=doc_id): the row, or Document.DoesNotExist
objects_exists(docs, doc_id) == \E d \in docs : d.id = doc_id
objects_get(docs, doc_id) == CHOOSE d \in docs : d.id = doc_id

\* --------------------------------------------------------------- responses
NoQuestion == [text |-> "", len |-> 0]

\* answer = qa.run(question): the completion the language model writes from
\* the chunks the retriever draws from the index.  `source` keeps, next to
\* the text, the documents those chunks belong to.
NoAnswer == [text |-> "", source |-> {}]
qa_run(index, question, completion) ==
    [text |-> completion, source |-> {index[i].doc : i \in DOMAIN index}]

Resp0(sid, action) ==
    [sid |-> sid, action |-> action, status |-> 200, exc |-> NoExc,
     template |-> "", form |-> NoForm, question_form |-> NoForm, error |-> "",
     filename |-> NoName, conversation |-> << >>,
     submitted |-> NoForm,      \* the bound form the request validated
     question_valid |-> FALSE,  \* an ask: the question it carried is a valid one
     saved_doc |-> NoId,        \* id of the Document this request persisted
     index_op |-> "none",       \* "load" or "build": what get_vectorstore did
     index |-> << >>,           \* the index handed to the retriever
     llm_calls |-> 0,           \* completions asked of the language model
     question |-> NoQuestion, answer |-> NoAnswer]

\* render(request, "docchat/upload.html", {"form": form [, "error": error]})
render_upload(r0, form, error) ==
    [r0 EXCEPT !.template = "docchat/upload.html", !.form = form, !.error = error]

\* render(request, "docchat/upload_success.html",
\*        {"filename":, "question_form":, "conversation":})
render_upload_success(r0, filename, question_form, conversation) ==
    [r0 EXCEPT !.template = "docchat/upload_success.html", !.filename = filename,
               !.question_form = question_form, !.conversation = conversation]

\* the view raised: nothing in home catches the exception, so the request
\* ends as a server error and nothing is rendered
server_error_swallowed(r0, exc) == [r0 EXCEPT !.exc = exc]   \* variant: caught
server_error(r0, exc) == [r0 EXCEPT !.status = 500, !.exc = exc]

\* What a run of the view leaves behind.
Result(sess, modified, docs, nid, stores, calls, resp) ==
    [sess |-> sess, modified |-> modified, documents |-> docs, nextId |-> nid,
     vectorstores |-> stores, embedCalls |-> calls, response |-> resp]

\* ------------------------------------------------------------ views.home
\* A request: its method, the action markers of request.POST, the file of
\* request.FILES and the question field.
MarkerSets ==
    { {}, {"upload_file"}, {"ask_question"}, {"reset"}, {"clear_chat"}, Markers }

NoQuestionField == [text |-> "", len |-> 0, pad |-> 0]

\* A POST carries the file field (upload form) or the question field
\* (question form); a GET carries nothing.
Requests ==
    [method : {"POST"}, markers : MarkerSets, file : Files \cup {NoFile},
     question : {NoQuestionField}]
    \cup [method : {"POST"}, markers : MarkerSets, file : {NoFile}, question : Questions]
    \cup [method : {"GET"}, markers : {{}}, file : {NoFile}, question : {NoQuestionField}]

\* The requests whose fields the branch does not read are left empty.
UploadRequests == { req \in Requests : req.question = NoQuestionField }
AskRequests == { req \in Requests : req.file = NoFile }
PlainRequests == { req \in Requests : req.file = NoFile /\ req.question = NoQuestionField }

\* The if / elif chain of home: the branch a request takes.
\* (variant: the reset branch comes first)
dispatch_reset_first(req) ==
    IF req.method = "POST" /\ "reset" \in req.markers THEN "reset"
    ELSE IF req.method = "POST" /\ "upload_file" \in req.markers THEN "upload"
    ELSE IF req.method = "POST" /\ "ask_question" \in req.markers THEN "ask"
    ELSE IF req.method = "POST" /\ "clear_chat" \in req.markers THEN "clear"
    ELSE "default"
dispatch(req) ==
    IF req.method = "POST" /\ "upload_file" \in req.markers THEN "upload"
    ELSE IF req.method = "POST" /\ "ask_question" \in req.markers THEN "ask"
    ELSE IF req.method = "POST" /\ "reset" \in req.markers THEN "reset"
    ELSE IF req.method = "POST" /\ "clear_chat" \in req.markers THEN "clear"
    ELSE "default"

\* The last line of home: render(request, "docchat/upload.html", {"form": upload_form})
home_default(r0, sess, upload_form, docs, nid, stores, calls) ==
    Result(sess, FALSE, docs, nid, stores, calls, render_upload(r0, upload_form, ""))

\* request.session["uploaded_filename"] = filename
\* request.session["document_id"] = doc.id
\* request.session["conversation"] = []
\* (variant: the third assignment left out)
upload_session_keep_conversation(sess, filename, doc_id) ==
    [keys |-> sess.keys \cup {"uploaded_filename", "document_id"},
     uploaded_filename |-> filename, document_id |-> doc_id,
     conversation |-> sess.conversation]
upload_session(sess, filename, doc_id) ==
    [keys |-> SessionKeys, uploaded_filename |-> filename, document_id |-> doc_id,
     conversation |-> << >>]

\* --- Upload file ---
home_upload(sid, req, fault, sess, docs, nid, stores, calls) ==
    LET upload_form == DocumentUploadForm(req.file)
        r0 == [Resp0(sid, "upload") EXCEPT !.submitted = upload_form]
    IN
    IF is_valid(upload_form)
    THEN LET uploaded_file == req.file
             \* doc = Document(file=uploaded_file); doc.save()
             doc == [id |-> nid + 1, name |-> uploaded_file.name, url |-> uploaded_file.url]
             docs1 == docs \cup {doc}
             filename == uploaded_file.name
             sess1 == upload_session(sess, filename, doc.id)
             vs == get_vectorstore(doc, stores, calls, fault)
             r1 == [r0 EXCEPT !.saved_doc = doc.id,
                              !.index_op = IF vs.built THEN "build"
                                           ELSE IF vs.exc = NoExc THEN "load" ELSE "none"]
         IN
         IF vs.exc # NoExc
         THEN Result(sess1, TRUE, docs1, nid + 1, vs.vectorstores, vs.embedCalls,
                     server_error(r1, vs.exc))
         ELSE Result(sess1, TRUE, docs1, nid + 1, vs.vectorstores, vs.embedCalls,
                     render_upload_success(r1, filename, QuestionForm_unbound, << >>))
    ELSE home_default(r0, sess, upload_form, docs, nid, stores, calls)

\* conversation = request.session.get("conversation", [])
\* conversation.append({"question": question, "answer": answer})
\* request.session["conversation"] = conversation
\* (variant: the new entry replaces the list)
ask_session_replace(sess, question, answer) ==
    [sess EXCEPT !.keys = @ \cup {"conversation"},
                 !.conversation = << [question |-> question, answer |-> answer] >>]
ask_session(sess, question, answer) ==
    [sess EXCEPT !.keys = @ \cup {"conversation"},
                 !.conversation = Append(session_get_conversation(sess),
                                         [question |-> question, answer |-> answer])]

\* if not filename: ...
no_document_never(filename) == FALSE         \* variant: the check left out
no_document(filename) == filename = NoName

\* --- Ask question ---
home_ask(sid, req, answer, fault, sess, docs, nid, stores, calls) ==
    LET upload_form == DocumentUploadForm_unbound
        question_form == QuestionForm(req.question)
        filename == session_get_filename(sess)
        r0 == [Resp0(sid, "ask") EXCEPT !.question_valid = (question_form.errors = {})]
    IN
    IF no_document(filename)
    THEN Result(sess, FALSE, docs, nid, stores, calls,
                render_upload(r0, upload_form, "Please upload a document first."))
    ELSE
    LET doc_id == session_get_document_id(sess) IN
    IF doc_id = NoId
    THEN Result(sess, FALSE, docs, nid, stores, calls,
                render_upload(r0, upload_form, "File missing."))
    ELSE IF ~ objects_exists(docs, doc_id)
    THEN \* Document.objects.get raises Document.DoesNotExist
         Result(sess, FALSE, docs, nid, stores, calls,
                server_error(r0, "DoesNotExist"))
    ELSE
    LET doc == objects_get(docs, doc_id)
        vs == get_vectorstore(doc, stores, calls, fault)
        r1 == [r0 EXCEPT !.index_op = IF vs.built THEN "build"
                                      ELSE IF vs.exc = NoExc THEN "load" ELSE "none",
                         !.index = vs.index,
                         !.submitted = IF vs.exc = NoExc THEN question_form ELSE NoForm]
    IN
    IF vs.exc # NoExc
    THEN Result(sess, FALSE, docs, nid, vs.vectorstores, vs.embedCalls,
                server_error(r1, vs.exc))
    ELSE IF is_valid(question_form)
    THEN LET question == cleaned_question(req.question)
             r2 == [r1 EXCEPT !.llm_calls = 1, !.question = question]
         IN
         IF fault = "completion"
         THEN Result(sess, FALSE, docs, nid, vs.vectorstores, vs.embedCalls,
                     server_error(r2, "APIError"))
         ELSE LET ans == qa_run(vs.index, question, answer)
                  sess1 == ask_session(sess, question, ans)
              IN
              Result(sess1, TRUE, docs, nid, vs.vectorstores, vs.embedCalls,
                     render_upload_success([r2 EXCEPT !.answer = ans], filename,
                         QuestionForm_unbound, session_get_conversation(sess1)))
    ELSE Result(sess, FALSE, docs, nid, vs.vectorstores, vs.embedCalls,
                render_upload_success(r1, filename, QuestionForm_unbound,
                                      session_get_conversation(sess)))

\* for key in ["conversation", "uploaded_filename", "document_id"]:
\*     request.session.pop(key, None)
\* (variant: "conversation" missing from the list)
reset_session_keep_conversation(sess) ==
    session_pop(session_pop(sess, "uploaded_filename"), "document_id")
\* (variant: "document_id" missing from the list)
reset_session_keep_document_id(sess) ==
    session_pop(session_pop(sess, "conversation"), "uploaded_filename")
reset_session(sess) ==
    session_pop(session_pop(session_pop(sess, "conversation"), "uploaded_filename"),
                "document_id")

\* --- Reset ---
home_reset(sid, sess, docs, nid, stores, calls) ==
    Result(reset_session(sess), TRUE, docs, nid, stores, calls,
           render_upload(Resp0(sid, "reset"), DocumentUploadForm_unbound, ""))

\* request.session["conversation"] = []
clear_session_all(sess) == EmptySession      \* variant: clears every key
clear_session(sess) ==
    [sess EXCEPT !.keys = @ \cup {"conversation"}, !.conversation = << >>]

\* --- Clear chat ---
home_clear(sid, sess, docs, nid, stores, calls) ==
    LET sess1 == clear_session(sess) IN
    Result(sess1, TRUE, docs, nid, stores, calls,
           render_upload_success(Resp0(sid, "clear"), session_get_filename(sess1),
                                 QuestionForm_unbound, << >>))

\* home(request): the branch the request takes, run on the request's session.
home(sid, req, answer, fault, sess, docs, nid, stores, calls) ==
    CASE dispatch(req) = "upload" ->
            home_upload(sid, req, fault, sess, docs, nid, stores, calls)
      [] dispatch(req) = "ask" ->
            home_ask(sid, req, answer, fault, sess, docs, nid, stores, calls)
      [] dispatch(req) = "reset" -> home_reset(sid, sess, docs, nid, stores, calls)
      [] dispatch(req) = "clear" -> home_clear(sid, sess, docs, nid, stores, calls)
      [] OTHER ->
            home_default(Resp0(sid, "default"), sess, DocumentUploadForm_unbound,
                         docs, nid, stores, calls)

\* The session store after the response.  request.session is the request's
\* working copy; setting request.session.modified asks the session
\* middleware to save it with the response, which it does unless the view
\* raised (a 5xx response saves nothing).
process_response(stored, working, modified, status) ==
    IF modified /\ status < 500 THEN working ELSE stored

\* ------------------------------------------------------------------- steps
\* A thread that handles no request.
NoDoc == [id |-> NoId, name |-> NoName, url |-> ""]
Idle ==
    [pc |-> "idle", sid |-> "", sess |-> EmptySession, doc |-> NoDoc,
     question |-> NoQuestionField, index |-> << >>, index_op |-> "none"]

Init ==
    /\ session = [s \in Sessions |-> EmptySession]
    /\ documents = {}
    /\ nextId = 0
    /\ vectorstores = [p \in DocIds |-> NoDir]
    /\ embedCalls = [d \in DocIds |-> 0]
    /\ lastUpload = [s \in Sessions |-> NoId]
    /\ response = Resp0("", "none")
    /\ markers = {}
    /\ inflight = [t \in Threads |-> Idle]

\* One request of browser session s, from the session load to the response.
Handle(s, req, answer, fault) ==
    \E r \in {home(s, req, answer, fault, session[s], documents, nextId,
                  vectorstores, embedCalls)} :
    /\ r.nextId <= MaxDocs
    /\ Len(r.sess.conversation) <= MaxConv
    /\ session' = [session EXCEPT ![s] =
                      process_response(@, r.sess, r.modified, r.response.status)]
    /\ documents' = r.documents
    /\ nextId' = r.nextId
    /\ vectorstores' = r.vectorstores
    /\ embedCalls' = r.embedCalls
    /\ lastUpload' =
          IF r.response.action = "upload" /\ r.response.status = 200
             /\ r.response.saved_doc # NoId
          THEN [lastUpload EXCEPT ![s] = r.response.saved_doc]
          ELSE lastUpload
    /\ response' = r.response
    /\ markers' = req.markers
    /\ UNCHANGED inflight

\* The faults are drawn where the request can meet them: an index build for
\* an upload with a file, a completion for an ask with a valid question.
Upload(s) ==
    \E req \in UploadRequests, fault \in Faults \ {"completion"} :
        /\ dispatch(req) = "upload"
        /\ nextId < MaxDocs
        /\ req.file = NoFile => fault = "none"
        /\ Handle(s, req, "", fault)

Ask(s) ==
    \E req \in AskRequests, answer \in Answers, fault \in Faults :
        /\ dispatch(req) = "ask"
        /\ (fault # "none" \/ ~ is_valid(QuestionForm(req.question)))
              => answer = "ans1"
        /\ Handle(s, req, answer, fault)

Reset(s) ==
    \E req \in PlainRequests :
        /\ dispatch(req) = "reset"
        /\ Handle(s, req, "", "none")

ClearChat(s) ==
    \E req \in PlainRequests :
        /\ dispatch(req) = "clear"
        /\ Handle(s, req, "", "none")

Default(s) ==
    \E req \in PlainRequests :
        /\ dispatch(req) = "default"
        /\ Handle(s, req, "", "none")

\* The Document row a session refers to is deleted from the table; the
\* sessions and the cache directory stay as they are.
DeleteDocument ==
    \E d \in documents :
        /\ \E s \in Sessions : session_get_document_id(session[s]) = d.id
        /\ documents' = documents \ {d}
        /\ response' = Resp0("", "none")
        /\ markers' = {}
        /\ UNCHANGED <<session, nextId, vectorstores, embedCalls, lastUpload, inflight>>

Next ==
    \/ \E s \in Sessions : Upload(s)
    \/ \E s \in Sessions : Ask(s)
    \/ \E s \in Sessions : Reset(s)
    \/ \E s \in Sessions : ClearChat(s)
    \/ \E s \in Sessions : Default(s)
    \/ DeleteDocument

Spec == Init /\ [][Next]_vars

\* The requests of one browser session alone.  A request reads and writes
\* only its own entry of the session store: what is claimed of one session's
\* requests is stated of OneSession, what involves several sessions of Spec.
OneSessionNext ==
    \/ Upload("s1")
    \/ Ask("s1")
    \/ Reset("s1")
    \/ ClearChat("s1")
    \/ Default("s1")
    \/ DeleteDocument

OneSession == Init /\ [][OneSessionNext]_vars

\* ----------------------------------------------- any submission to home
\* A POST with any set of the action markers and with the fields of either
\* form, or a GET.
AnyRequests ==
    [method : {"POST"}, markers : SUBSET Markers, file : Files \cup {NoFile},
     question : Questions]
    \cup [method : {"GET"}, markers : {{}}, file : {NoFile}, question : {NoQuestionField}]

Submit(s) ==
    \E req \in AnyRequests, answer \in Answers :
        /\ (dispatch(req) # "ask" \/ ~ is_valid(QuestionForm(req.question)))
              => answer = "ans1"
        /\ dispatch(req) = "upload" => nextId < MaxDocs
        /\ Handle(s, req, answer, "none")

DispatchNext == Submit("s1")

Dispatch == Init /\ [][DispatchNext]_vars

\* ------------------------------------------------------ overlapping asks
\* The server handles two requests at a time.  An ask reads and writes what
\* it shares with other requests at three places: it reads its session, the
\* Document and the cache directory's presence (lines 64-103 and 45); it
\* loads or builds the index (47, 50-57); it answers, and its session is
\* saved with the response (107-125).  Each is one step of its thread.
Quiet == \A t \in Threads : inflight[t].pc = "idle"

\* Lines 61-103 and get_vectorstore up to os.path.exists.  An ask that
\* returns or raises before get_vectorstore is a whole request.
AskBegin(t, s) ==
    /\ inflight[t].pc = "idle"
    /\ \E req \in AskRequests :
          /\ dispatch(req) = "ask"
          /\ LET sess == session[s]
                 doc_id == session_get_document_id(sess)
             IN
             IF \/ no_document(session_get_filename(sess))
                \/ doc_id = NoId
                \/ ~ objects_exists(documents, doc_id)
             THEN /\ req.question = NoQuestionField
                  /\ Handle(s, req, "ans1", "none")
             ELSE LET doc == objects_get(documents, doc_id) IN
                  /\ inflight' = [inflight EXCEPT ![t] =
                        [pc |-> IF path_exists(vectorstores, store_path(doc))
                                THEN "load" ELSE "build",
                         sid |-> s, sess |-> sess, doc |-> doc,
                         question |-> req.question,
                         index |-> << >>, index_op |-> "none"]]
                  /\ markers' = req.markers
                  /\ response' = Resp0("", "none")
                  /\ UNCHANGED <<session, documents, nextId, vectorstores,
                                 embedCalls, lastUpload>>

\* The branch of get_vectorstore the thread took at os.path.exists.
AskIndex(t) ==
    LET th == inflight[t] IN
    /\ th.pc \in {"load", "build"}
    /\ \E fault \in Faults \ {"completion"}, mode \in PersistModes :
          /\ th.pc = "load" => (fault = "none" /\ mode = "replace")
          /\ th.pc = "build" => embedCalls[th.doc.id] < MaxBuilds
          /\ \E vs \in {IF th.pc = "load"
                         THEN load_vectorstore(th.doc, vectorstores, embedCalls)
                         ELSE create_vectorstore(th.doc, vectorstores, embedCalls,
                                                 fault, mode)} :
                /\ vectorstores' = vs.vectorstores
                /\ embedCalls' = vs.embedCalls
                /\ IF vs.exc # NoExc
                   THEN /\ inflight' = [inflight EXCEPT ![t] = Idle]
                        /\ response' =
                              server_error([Resp0(th.sid, "ask") EXCEPT
                                  !.question_valid = (QuestionForm(th.question).errors = {})],
                                  vs.exc)
                   ELSE /\ inflight' = [inflight EXCEPT ![t] =
                              [th EXCEPT !.pc = "answer", !.index = vs.index,
                                         !.index_op = IF vs.built THEN "build" ELSE "load"]]
                        /\ response' = response
                /\ UNCHANGED <<session, documents, nextId, lastUpload, markers>>

\* Lines 107-125, and the session middleware saving request.session.
AskFinish(t) ==
    LET th == inflight[t]
        question_form == QuestionForm(th.question)
        filename == session_get_filename(th.sess)
        r1 == [Resp0(th.sid, "ask") EXCEPT !.question_valid = (question_form.errors = {}),
                                            !.index_op = th.index_op,
                                            !.index = th.index,
                                            !.submitted = question_form]
    IN
    /\ th.pc = "answer"
    /\ \E answer \in Answers, fault \in {"none", "completion"} :
          /\ (fault # "none" \/ ~ is_valid(question_form)) => answer = "ans1"
          /\ ~ is_valid(question_form) => fault = "none"
          /\ IF is_valid(question_form)
             THEN LET question == cleaned_question(th.question)
                      r2 == [r1 EXCEPT !.llm_calls = 1, !.question = question]
                      ans == qa_run(th.index, question, answer)
                      sess1 == ask_session(th.sess, question, ans)
                  IN
                  IF fault = "completion"
                  THEN /\ response' = server_error(r2, "APIError")
                       /\ session' = session
                  ELSE /\ Len(sess1.conversation) <= MaxConv
                       /\ response' =
                             render_upload_success([r2 EXCEPT !.answer = ans], filename,
                                 QuestionForm_unbound, session_get_conversation(sess1))
                       /\ session' = [session EXCEPT ![th.sid] =
                                         process_response(@, sess1, TRUE, 200)]
             ELSE /\ response' =
                        render_upload_success(r1, filename, QuestionForm_unbound,
                                              session_get_conversation(th.sess))
                  /\ session' = session
    /\ inflight' = [inflight EXCEPT ![t] = Idle]
    /\ UNCHANGED <<documents, nextId, vectorstores, embedCalls, lastUpload, markers>>

\* The cache directory of a loaded document is lost (VECTORSTORE_DIR is a
\* local directory of the server) while no request is being handled.
DeleteCacheDir ==
    \E d \in DocIds :
        /\ Quiet
        /\ vectorstores[d].exists
        /\ embedCalls[d] < MaxBuilds
        /\ \E s \in Sessions : session_get_document_id(session[s]) = d
        /\ vectorstores' = [vectorstores EXCEPT ![d] = NoDir]
        /\ response' = Resp0("", "none")
        /\ markers' = {}
        /\ UNCHANGED <<session, documents, nextId, embedCalls, lastUpload, inflight>>

\* The asks of one session on its first document.
ConcurrentNext ==
    \/ Quiet /\ documents = {} /\ Upload("s1")
    \/ DeleteCacheDir
    \/ \E t \in Threads : AskBegin(t, "s1")
    \/ \E t \in Threads : AskIndex(t)
    \/ \E t \in Threads : AskFinish(t)

Concurrent == Init /\ [][ConcurrentNext]_vars

\* ------------------------------------------------------------------ claims
\* The last request was an ask of session s that the QA router answered.
AskAnswered(resp, s) ==
    /\ resp.sid = s /\ resp.action = "ask" /\ resp.status = 200
    /\ resp.llm_calls = 1

\* C1: an ask with a valid question that the QA call answers with a appends
\* exactly one entry {question, answer: a} to the conversation: the earlier
\* entries are kept in order, and filename and document id stay as they were.
C1_AskAppendsOneEntry ==
    [][\A s \in Sessions :
        AskAnswered(response', s) =>
            /\ session_get_conversation(session'[s]) =
                   Append(session_get_conversation(session[s]),
                          [question |-> response'.question, answer |-> response'.answer])
            /\ response'.conversation = session_get_conversation(session'[s])
            /\ session_get_filename(session'[s]) = session_get_filename(session[s])
            /\ session_get_document_id(session'[s]) = session_get_document_id(session[s])
      ]_vars

\* a second ask was answered: the conversation holds two different entries
C1_Witness ==
    /\ response.action = "ask" /\ response.status = 200 /\ response.llm_calls = 1
    /\ Len(session[response.sid].conversation) = 2
    /\ session[response.sid].conversation[1] # session[response.sid].conversation[2]
    /\ session[response.sid].conversation[2] =
          [question |-> response.question, answer |-> response.answer]

\* C2: an ask in a session without uploaded_filename returns the "Please
\* upload a document first." error and leaves the session as it was.
C2_AskWithoutDocument ==
    [][\A s \in Sessions :
        (response'.sid = s /\ response'.action = "ask"
         /\ session_get_filename(session[s]) = NoName) =>
            /\ response'.status = 200
            /\ response'.template = "docchat/upload.html"
            /\ response'.error = "Please upload a document first."
            /\ session'[s] = session[s]
      ]_vars

\* the error is returned to a session that had a document and was reset
C2_Witness ==
    /\ response.action = "ask"
    /\ response.error = "Please upload a document first."
    /\ lastUpload[response.sid] # NoId
    /\ session[response.sid].keys = {}

\* C3: after a reset the session holds none of uploaded_filename,
\* document_id and conversation.
C3_ResetClearsAll ==
    response.action = "reset" =>
        /\ session[response.sid].keys = {}
        /\ session[response.sid] = EmptySession

\* a session that had uploaded a document was reset
C3_Witness ==
    /\ response.action = "reset"
    /\ lastUpload[response.sid] # NoId

\* C4: a clear empties the conversation and leaves uploaded_filename and
\* document_id as they were; an ask right after the clear, in a session with
\* a document, is not refused for want of an upload, and once answered it
\* leaves a conversation of exactly one entry.
C4_ClearKeepsDocument ==
    [][\A s \in Sessions :
        /\ (response'.sid = s /\ response'.action = "clear") =>
              /\ session_get_conversation(session'[s]) = << >>
              /\ "conversation" \in session'[s].keys
              /\ session'[s].keys \ {"conversation"} = session[s].keys \ {"conversation"}
              /\ session'[s].uploaded_filename = session[s].uploaded_filename
              /\ session'[s].document_id = session[s].document_id
        /\ (response.sid = s /\ response.action = "clear"
             /\ session_get_filename(session[s]) # NoName
             /\ response'.sid = s /\ response'.action = "ask") =>
              /\ response'.error = ""
              /\ AskAnswered(response', s) =>
                    session_get_conversation(session'[s]) =
                        << [question |-> response'.question, answer |-> response'.answer] >>
      ]_vars

\* a clear in a session with a document: the document is still loaded
C4_Witness ==
    /\ response.action = "clear"
    /\ session_get_filename(session[response.sid]) # NoName
    /\ session_get_document_id(session[response.sid]) # NoId

\* C5: after a successful upload the session holds the uploaded file's name,
\* the id of the Document the request persisted and an empty conversation.
C5_UploadLoadsDocument ==
    (response.action = "upload" /\ response.status = 200
     /\ response.template = "docchat/upload_success.html") =>
        /\ response.saved_doc = nextId
        /\ \E d \in documents :
              /\ d.id = response.saved_doc
              /\ d.name = response.filename
              /\ session[response.sid] =
                    [keys |-> SessionKeys, uploaded_filename |-> d.name,
                     document_id |-> d.id, conversation |-> << >>]

\* the second upload of a session that had a document loaded
C5_Witness ==
    /\ response.action = "upload" /\ response.status = 200
    /\ response.saved_doc = 2
    /\ vectorstores[1].index = BuiltIndex([id |-> 1])
    /\ \A s \in Sessions \ {response.sid} : lastUpload[s] = NoId

\* C6: the index builder invokes the embedding service only when no cache
\* directory exists for the document id, and leaves an existing directory as
\* it is; so the embedding service is invoked for at most one build per
\* document id, and an index that is loaded is the index that was built.
C6_BuildOncePerDocument ==
    [][/\ \A d \in DocIds :
            /\ embedCalls'[d] > embedCalls[d] => ~ vectorstores[d].exists
            /\ vectorstores[d].exists => vectorstores'[d] = vectorstores[d]
            /\ embedCalls'[d] <= 1
       /\ response'.index_op = "load" =>
            /\ embedCalls' = embedCalls
            /\ response'.index =
                  BuiltIndex([id |-> session_get_document_id(session[response'.sid])])
      ]_vars

\* an ask loaded the index its upload had built
C6_Witness ==
    /\ response.action = "ask" /\ response.index_op = "load"
    /\ embedCalls[session_get_document_id(session[response.sid])] = 1

\* C7: an ask that reaches the QA router uses the index of the document of
\* the most recent successful upload of its own session.
C7_AskUsesOwnIndex ==
    (response.action = "ask" /\ response.llm_calls = 1) =>
        /\ lastUpload[response.sid] # NoId
        /\ response.index = BuiltIndex([id |-> lastUpload[response.sid]])
        /\ \A i \in DOMAIN response.index :
              response.index[i].doc = lastUpload[response.sid]

\* an ask while two documents exist, one of them of another session or of an
\* earlier upload
C7_Witness ==
    /\ response.action = "ask" /\ response.llm_calls = 1
    /\ nextId = 2
    /\ vectorstores[1].exists /\ vectorstores[2].exists
    /\ vectorstores[1].index # << >> /\ vectorstores[2].index # << >>

\* C8: an ask in a session whose document is missing from the store returns
\* a user-facing error, raises nothing and leaves the session as it was.
C8_MissingDocumentReported ==
    [][\A s \in Sessions :
        (response'.sid = s /\ response'.action = "ask"
         /\ ~ objects_exists(documents, session_get_document_id(session[s]))) =>
            /\ response'.status = 200
            /\ response'.exc = NoExc
            /\ response'.error # ""
            /\ session'[s] = session[s]
      ]_vars

\* C9: a submission that fails validation is rendered with the bound form
\* that carries the errors, the upload form as well as the question form.
C9_InvalidFormRendered ==
    (response.status = 200 /\ response.submitted.bound
     /\ response.submitted.errors # {}) =>
        /\ response.action = "upload" => response.form = response.submitted
        /\ response.action = "ask" => response.question_form = response.submitted

\* C10: a request that ends in a transport or API error (fetch, embedding,
\* completion) leaves uploaded_filename, document_id and conversation of its
\* session as they were before the request.
C10_FailedRequestKeepsSession ==
    [][\A s \in Sessions :
        (response'.sid = s
         /\ response'.exc \in {"HTTPError", "EmbeddingError", "APIError"}) =>
            /\ response'.status = 500
            /\ response'.template = ""
            /\ session'[s] = session[s]
      ]_vars

\* an upload failed in the index build, in a session holding a conversation
C10_Witness ==
    /\ response.action = "upload" /\ response.status = 500
    /\ response.exc = "EmbeddingError"
    /\ session_get_conversation(session[response.sid]) # << >>

\* C11: two builds of one document's index that overlap leave, once both
\* have finished, the index of one complete build in the directory; so
\* every build that completes leaves there exactly the chunks of one build
\* of its document, neither a mixture nor the chunks of both.
C11_OverlappingBuildsKeepOneIndex ==
    [][\A t \in Threads :
        (inflight[t].pc = "build" /\ inflight'[t].pc = "answer") =>
            vectorstores'[store_path(inflight[t].doc)] =
                [exists |-> TRUE, index |-> BuiltIndex(inflight[t].doc)]
      ]_vars

\* C12: a GET, or a POST without an action marker, renders the upload form
\* together with the session's state: the filename and the conversation of
\* a session with a document loaded, none of them for an empty session.
C12_DefaultReflectsSession ==
    response.action = "default" =>
        /\ response.template = "docchat/upload.html"
        /\ response.form = DocumentUploadForm_unbound
        /\ response.filename = session_get_filename(session[response.sid])
        /\ response.conversation = session_get_conversation(session[response.sid])

\* The session of request s has a document loaded and its Document is stored.
DocumentLoaded(sess, docs) ==
    /\ session_get_filename(sess) # NoName
    /\ session_get_document_id(sess) # NoId
    /\ objects_exists(docs, session_get_document_id(sess))

\* C13 as stated: the language model is invoked exactly once if and only if
\* the request is an ask with a valid question in a session with a document
\* loaded; in every other request it is not invoked and the conversation
\* gains no entry.
C13_OneCompletionPerValidAsk ==
    [][\A s \in Sessions :
        response'.sid = s =>
            /\ response'.llm_calls = 1 <=>
                  /\ response'.action = "ask"
                  /\ session_get_filename(session[s]) # NoName
                  /\ response'.question_valid
            /\ response'.llm_calls = 0 =>
                  Len(session_get_conversation(session'[s]))
                      <= Len(session_get_conversation(session[s]))
      ]_vars

\* C13, amended: the language model is invoked exactly once if and only if
\* the request is an ask with a valid question in a session with a document
\* loaded whose Document is stored, and never more than once; in every
\* other request it is not invoked and the conversation gains no entry; an
\* ask with an invalid question on such a session has loaded or built the
\* index and is rendered in the document view.
C13_OneCompletionPerValidAskOnStoredDocument ==
    [][\A s \in Sessions :
        response'.sid = s =>
            /\ response'.llm_calls \in {0, 1}
            /\ response'.llm_calls = 1 <=>
                  /\ response'.action = "ask"
                  /\ DocumentLoaded(session[s], documents)
                  /\ response'.question_valid
            /\ response'.llm_calls = 0 =>
                  Len(session_get_conversation(session'[s]))
                      <= Len(session_get_conversation(session[s]))
            /\ (response'.action = "ask" /\ DocumentLoaded(session[s], documents)
                 /\ ~ response'.question_valid) =>
                  /\ response'.index_op \in {"load", "build"}
                  /\ response'.index =
                        BuiltIndex([id |-> session_get_document_id(session[s])])
                  /\ response'.template = "docchat/upload_success.html"
                  /\ session'[s] = session[s]
      ]_vars

\* an ask with a question that is too long, on a loaded document with a
\* conversation: the index was loaded and the language model was not asked
C13_Witness ==
    /\ response.action = "ask" /\ response.status = 200
    /\ response.submitted.errors = {"max_length"}
    /\ response.index_op = "load" /\ response.llm_calls = 0
    /\ session_get_conversation(session[response.sid]) # << >>

\* The first of the four markers a request carries, in the order upload,
\* ask, reset, clear.
FirstMarker(ms) ==
    IF "upload_file" \in ms THEN "upload"
    ELSE IF "ask_question" \in ms THEN "ask"
    ELSE IF "reset" \in ms THEN "reset"
    ELSE IF "clear_chat" \in ms THEN "clear"
    ELSE "default"

\* C14: a request performs at most one of upload, ask, reset and clear, the
\* first of its markers in that order: with the upload marker nothing is
\* asked, reset or cleared, and with an invalid upload form nothing at all
\* is done; with the ask marker and no upload marker no Document is
\* persisted and the session is neither reset nor cleared; with the reset
\* marker and neither of these the session ends empty, not cleared.
C14_OneActionPerRequest ==
    [][\A s \in Sessions :
        response'.sid = s =>
            /\ response'.action = FirstMarker(markers')
            /\ "upload_file" \in markers' =>
                  /\ response'.llm_calls = 0
                  /\ IF response'.submitted.errors # {}
                     THEN /\ session' = session /\ documents' = documents
                          /\ vectorstores' = vectorstores
                     ELSE /\ documents' # documents
                          /\ session_get_filename(session'[s]) # NoName
                          /\ session'[s].keys = SessionKeys
            /\ ("ask_question" \in markers' /\ "upload_file" \notin markers') =>
                  /\ documents' = documents
                  /\ session'[s].keys = session[s].keys
                  /\ session'[s].uploaded_filename = session[s].uploaded_filename
                  /\ Len(session'[s].conversation) >= Len(session[s].conversation)
            /\ ("reset" \in markers' /\ "ask_question" \notin markers'
                 /\ "upload_file" \notin markers') =>
                  /\ session'[s].keys = {}
                  /\ documents' = documents
      ]_vars

\* an ask that also carried the reset and clear markers was answered, and
\* the session still holds its document and the earlier entry
C14_Witness ==
    /\ response.action = "ask" /\ response.llm_calls = 1 /\ response.status = 200
    /\ {"ask_question", "reset", "clear_chat"} \subseteq markers
    /\ Len(session_get_conversation(session[response.sid])) = 2
    /\ session_get_filename(session[response.sid]) # NoName

\* C15: a GET, a POST without an action marker and an upload whose form is
\* invalid leave every session as it was, persist no Document and neither
\* build nor load an index.
C15_NoActionNoEffect ==
    [][(\/ response'.action = "default"
        \/ response'.action = "upload" /\ response'.submitted.errors # {}) =>
            /\ session' = session
            /\ documents' = documents /\ nextId' = nextId
            /\ vectorstores' = vectorstores /\ embedCalls' = embedCalls
            /\ response'.saved_doc = NoId
            /\ response'.index_op = "none" /\ response'.index = << >>
            /\ response'.llm_calls = 0
      ]_vars

\* an upload without a file, in a session that holds a document and a
\* conversation
C15_Witness ==
    /\ response.action = "upload" /\ response.submitted.errors = {"required"}
    /\ session_get_filename(session[response.sid]) # NoName
    /\ session_get_conversation(session[response.sid]) # << >>

\* C16: every saved session holds uploaded_filename if and only if it holds
\* document_id.
C16_FilenameIffDocumentId ==
    \A s \in Sessions :
        /\ "uploaded_filename" \in session[s].keys <=> "document_id" \in session[s].keys
        /\ session_get_filename(session[s]) # NoName
              <=> session_get_document_id(session[s]) # NoId

\* a session that uploaded a document, was reset and then cleared: it holds
\* a conversation and neither of the two keys
C16_Witness ==
    /\ response.action = "clear"
    /\ lastUpload[response.sid] # NoId
    /\ session[response.sid].keys = {"conversation"}

\* C17: every entry of a saved conversation was answered from the index of
\* the session's current document, and a session with a conversation that is
\* not empty has a document loaded.
C17_ConversationOfCurrentDocument ==
    \A s \in Sessions :
        /\ \A i \in DOMAIN session_get_conversation(session[s]) :
              session_get_conversation(session[s])[i].answer.source =
                  {session_get_document_id(session[s])}
        /\ session_get_conversation(session[s]) # << >> =>
              /\ session_get_filename(session[s]) # NoName
              /\ session_get_document_id(session[s]) # NoId

\* a conversation on the second document of a session
C17_Witness ==
    /\ session_get_document_id(session["s1"]) = 2
    /\ lastUpload["s1"] = 2
    /\ vectorstores[1].exists
    /\ Len(session_get_conversation(session["s1"])) = 2

\* C18: a cache directory exists only with the complete index of its
\* document in it; a build that fails leaves no directory.
C18_DirectoryHoldsCompleteIndex ==
    \A d \in DocIds :
        vectorstores[d].exists => vectorstores[d].index = BuiltIndex([id |-> d])

\* C19: two asks of one session that overlap and are both answered leave
\* both entries in the conversation; so every answered ask leaves the
\* saved conversation one entry longer than it was, its own entry last.
C19_OverlappingAsksKeepBoth ==
    [][\A t \in Threads :
        (inflight[t].pc = "answer" /\ inflight'[t].pc = "idle"
         /\ AskAnswered(response', inflight[t].sid)) =>
            session_get_conversation(session'[inflight[t].sid]) =
                Append(session_get_conversation(session[inflight[t].sid]),
                       [question |-> response'.question, answer |-> response'.answer])
      ]_vars

\* C20: the document view (upload_success) is returned only to a session
\* that has a document loaded, after a clear as after any other request.
C20_DocumentViewOnlyWhenLoaded ==
    (response.status = 200 /\ response.template = "docchat/upload_success.html") =>
        /\ response.filename # NoName
        /\ session_get_filename(session[response.sid]) = response.filename

====
